---- MODULE Spec2Model ----
(***************************************************************************)
(* DeviceDiscoveryCoordinator of custom_components/dirigera_platform/      *)
(* device_discovery.py as a state machine.                                 *)
(*                                                                         *)
(* The coordinator runs on a single-threaded cooperative scheduler: a      *)
(* discover_device coroutine runs without interruption from its call to    *)
(* the await of the executor job (the fetch), and from the resumption of   *)
(* that await to its return.  Each of the two segments is one action.      *)
(* register_known_device and register_platform_callback are synchronous    *)
(* and may run between the two segments of any attempt.                    *)
(***************************************************************************)
EXTENDS Naturals, Sequences, FiniteSets, TLC

\* ------------------------------------------------------------------ bounds
\* Number of discover_device calls made in one behaviour.
NumTasks == 2

Tasks == 1..NumTasks
DeviceIds == {"d1", "d2"}
\* A platform callback is named by the platform whose setup supplied it and
\* a version: <<"light", 1>> is the first async_add_entities function of the
\* light platform.  NoCallback: the key is absent from the dict.
NoCallback == <<>>
None == "None"

\* ------------------------------------------------------- static type table
DEVICE_TYPE_TO_PLATFORM ==
    [ty \in {"light", "outlet", "airPurifier", "blinds", "environmentSensor",
             "controller", "motionSensor", "occupancySensor", "lightSensor",
             "openCloseSensor", "waterSensor"} |->
        CASE ty = "light" -> "light"
          [] ty = "outlet" -> "switch"
          [] ty = "airPurifier" -> "fan"
          [] ty = "blinds" -> "cover"
          [] ty = "environmentSensor" -> "sensor"
          [] ty = "controller" -> "sensor"
          [] ty = "motionSensor" -> "binary_sensor"
          [] ty = "occupancySensor" -> "binary_sensor"
          [] ty = "lightSensor" -> "sensor"
          [] ty = "openCloseSensor" -> "binary_sensor"
          [] ty = "waterSensor" -> "binary_sensor"]

\* The deviceType strings an event may carry: the keys of the table and one
\* that is not a key.
DeviceTypes == DOMAIN DEVICE_TYPE_TO_PLATFORM \cup {"speaker"}

Platforms == {"light", "switch", "fan", "cover", "sensor", "binary_sensor"}

\* Variants of PlatformOf: a table whose "outlet" row names the light
\* platform; a lookup that falls back to the sensor platform.
PlatformOfOutletAsLight(ty) ==
    IF ty = "outlet" THEN "light"
    ELSE IF ty \in DOMAIN DEVICE_TYPE_TO_PLATFORM THEN DEVICE_TYPE_TO_PLATFORM[ty]
    ELSE None

PlatformOfWithDefault(ty) ==
    IF ty \in DOMAIN DEVICE_TYPE_TO_PLATFORM THEN DEVICE_TYPE_TO_PLATFORM[ty]
    ELSE "sensor"

\* DEVICE_TYPE_TO_PLATFORM.get(device_type)
PlatformOf(ty) ==
    IF ty \in DOMAIN DEVICE_TYPE_TO_PLATFORM THEN DEVICE_TYPE_TO_PLATFORM[ty] ELSE None

\* The functions each platform's setup may register, by version.
OwnFns(versions) == [p \in Platforms |-> {<<p, v>> : v \in versions}]

\* The environments explored.  An environment fixes which devices and device
\* types the hub's events carry, which platforms register callbacks with
\* which functions, and which of the numbered calls are made.
\*   ConcurrentEnv: every call; a supported type, a mapped but unsupported
\*     type and an unmapped type; two platforms, one function each.
\*   AllTypesEnv: one call; every device type and every platform.
\*   RegistrationEnv: every call; one device of one type, whose platform
\*     registers either of two functions, so that a registration can be
\*     overwritten.
ConcurrentEnv == [name |-> "concurrent",
                  devices |-> DeviceIds,
                  types |-> {"light", "controller", "speaker"},
                  platforms |-> {"light", "sensor"},
                  fns |-> OwnFns({1}),
                  tasks |-> Tasks]
AllTypesEnv == [name |-> "alltypes",
                devices |-> DeviceIds,
                types |-> DeviceTypes,
                platforms |-> Platforms,
                fns |-> OwnFns({1}),
                tasks |-> {1}]
RegistrationEnv == [name |-> "registration",
                    devices |-> {"d1"},
                    types |-> {"light"},
                    platforms |-> {"light"},
                    fns |-> OwnFns({1, 2}),
                    tasks |-> Tasks]
Environments == {ConcurrentEnv, AllTypesEnv, RegistrationEnv}

VARIABLES
    known,        \* self._known_device_ids
    pending,      \* self._pending_discovery
    callbacks,    \* self._platform_callbacks: platform -> fn, NoCallback if absent
    task,         \* the discover_device coroutines: position and arguments
    obs,          \* per coroutine: what it did (fetch issued, callback calls, ...)
    seeded,       \* identifiers passed to register_known_device so far
    env           \* the environment of this behaviour (never changes)

vars == <<known, pending, callbacks, task, obs, seeded, env>>


\* ---------------------------------------------------------------- helpers
\* The record GET /devices/{device_id} returns for device d.
DeviceData(d) == [id |-> d]

NoEntity == [cls |-> None, id |-> None]

\* The HA entity class _create_entity returns per device type.
EntityClass(ty) ==
    CASE ty = "light" -> "ikea_bulb"
      [] ty = "outlet" -> "ikea_outlet_switch_sensor"
      [] ty = "airPurifier" -> "ikea_starkvind_air_purifier_fan"
      [] ty = "blinds" -> "ikea_blinds_sensor"
      [] ty \in {"motionSensor", "occupancySensor"} -> "ikea_motion_sensor"
      [] ty = "lightSensor" -> "ikea_light_sensor_lux"
      [] ty = "openCloseSensor" -> "ikea_open_close_sensor"
      [] ty = "waterSensor" -> "ikea_water_sensor"
      [] OTHER -> None

\* Variant of CreateEntity without the two "not yet implemented" branches.
CreateEntityForEveryType(ty, data, builds) ==
    IF ~builds THEN NoEntity
    ELSE [cls |-> IF EntityClass(ty) = None THEN "ikea_sensor" ELSE EntityClass(ty),
          id |-> data.id]

\* Variant of CreateEntity whose except clause hands back an entity anyway.
CreateEntityDespiteFailure(ty, data, builds) ==
    IF ty \in {"environmentSensor", "controller"} THEN NoEntity
    ELSE IF EntityClass(ty) = None THEN NoEntity
    ELSE [cls |-> EntityClass(ty), id |-> data.id]

\* _create_entity(device_type, device_data).  builds: the imports and the
\* dict_to_* / wrapper / entity constructors run without raising; when they
\* raise, the except clause logs and returns None.
CreateEntity(ty, data, builds) ==
    IF ~builds THEN NoEntity
    ELSE IF ty \in {"environmentSensor", "controller"} THEN NoEntity
    ELSE IF EntityClass(ty) = None THEN NoEntity
    ELSE [cls |-> EntityClass(ty), id |-> data.id]

\* is_known_device(device_id)
is_known_device(d) == d \in known

\* device_id in self._pending_discovery
InPending(d) == d \in pending

\* Variants of Guard: one of the two checks is missing; any discovery in
\* flight blocks every identifier.
GuardIgnoresKnown(d) == InPending(d)

GuardIgnoresPending(d) == is_known_device(d)

GuardAnyPending(d) == pending # {} \/ is_known_device(d)

\* The two early returns before the try block.
Guard(d) == InPending(d) \/ is_known_device(d)

\* Variant of MarkPending: the mark is lost.
MarkPendingLost(P, d) == P

\* self._pending_discovery.add(device_id)
MarkPending(P, d) == P \cup {d}

\* Variant of Cleanup: no finally clause.
CleanupSkipped(P, d) == P

\* finally: self._pending_discovery.discard(device_id)
Cleanup(P, d) == P \ {d}

\* Variants of Promote: the identifier is not recorded; the set is
\* assigned instead of added to.
PromoteLost(K, d) == K

PromoteReplacing(K, d) == {d}

\* self._known_device_ids.add(device_id)
Promote(K, d) == K \cup {d}

\* Variant of HasCallback: the check is missing.
HasCallbackUnchecked(cbs, p) == TRUE

\* platform in self._platform_callbacks
HasCallback(cbs, p) == cbs[p] # NoCallback

\* Variant of ExceptionCaught: no except clause.
ExceptionNotCaught == FALSE

\* except Exception: an exception raised in the try block is caught, logged
\* and turned into return False.
ExceptionCaught == TRUE

\* Variant of RegisterResult: the first registration of a platform stays.
RegisterFirstWins(cbs, p, fn) ==
    IF cbs[p] = NoCallback THEN [cbs EXCEPT ![p] = fn] ELSE cbs

\* self._platform_callbacks[platform] = callback
RegisterResult(cbs, p, fn) == [cbs EXCEPT ![p] = fn]

\* ------------------------------------------------------------------ state
IdleTask == [pc |-> "idle", dev |-> None, ty |-> None, platform |-> None]

\* What is recorded of a call: the state it found (pendingBefore,
\* knownBefore, cbAtCall: the callback registered for the platform the table
\* gives its type, overlap: the attempts then suspended; cbAtResume: that
\* callback when the fetch returned), what its collaborators did (fetchRes,
\* builds, cbRaises), what it did (fetched: it issued the fetch, calls: its
\* callback invocations, each with the function invoked, the batch passed,
\* whether it raised and whether the identifier was in the known set at
\* that moment, promoted: it added the identifier to the known set), how it
\* ended (outcome: the return statement, ret: the value, propagated: an
\* exception reached the caller instead) and the state it left
\* (pendingAfter, knownAfter).
NoObs == [pendingBefore |-> FALSE, knownBefore |-> FALSE, cbAtCall |-> NoCallback,
          overlap |-> {}, cbAtResume |-> NoCallback,
          fetchRes |-> "none", builds |-> FALSE, cbRaises |-> FALSE,
          fetched |-> FALSE, calls |-> <<>>, promoted |-> FALSE,
          outcome |-> "none", ret |-> FALSE, propagated |-> FALSE,
          pendingAfter |-> FALSE, knownAfter |-> FALSE]

\* __init__
Init ==
    /\ known = {}
    /\ pending = {}
    /\ callbacks = [p \in Platforms |-> NoCallback]
    /\ task = [t \in Tasks |-> IdleTask]
    /\ obs = [t \in Tasks |-> NoObs]
    /\ seeded = {}
    /\ env \in Environments

\* Coroutines suspended in the await of the executor job.
Suspended == {t \in Tasks : task[t].pc = "fetch"}

\* A coroutine returns r by the return statement named oc, leaving the sets
\* P and K behind.
Returned(t, d, ty, o, oc, r, P, K) ==
    /\ task' = [task EXCEPT ![t] = [pc |-> "done", dev |-> d, ty |-> ty,
                                    platform |-> PlatformOf(ty)]]
    /\ obs' = [obs EXCEPT ![t] = [o EXCEPT !.outcome = oc, !.ret = r,
                                           !.pendingAfter = d \in P,
                                           !.knownAfter = d \in K]]
    /\ pending' = P
    /\ known' = K

\* ---------------------------------------------------------------- actions
\* register_platform_callback(platform, callback)
RegisterPlatformCallback(p, fn) ==
    /\ p \in env.platforms
    /\ fn \in env.fns[p]
    /\ callbacks' = RegisterResult(callbacks, p, fn)
    /\ UNCHANGED <<known, pending, task, obs, seeded, env>>

\* register_known_device(device_id)
RegisterKnownDevice(d) ==
    /\ d \in env.devices
    /\ known' = known \cup {d}
    /\ seeded' = seeded \cup {d}
    /\ UNCHANGED <<pending, callbacks, task, obs, env>>

\* discover_device(device_id, device_type), from the call to the first
\* suspension (the await of the executor job) or to an earlier return.
\* Calls are numbered in the order they are made.
DiscoverDeviceCall(t, d, ty) ==
    /\ task[t].pc = "idle"
    /\ t \in env.tasks
    /\ d \in env.devices
    /\ ty \in env.types
    /\ \A u \in Tasks : u < t => task[u].pc # "idle"
    /\ LET platform == PlatformOf(ty)
           o == [obs[t] EXCEPT !.overlap = Suspended,
                               !.pendingBefore = d \in pending,
                               !.knownBefore = d \in known,
                               !.cbAtCall =
                                   IF ty \in DOMAIN DEVICE_TYPE_TO_PLATFORM
                                   THEN callbacks[DEVICE_TYPE_TO_PLATFORM[ty]]
                                   ELSE NoCallback]
           marked == MarkPending(pending, d)
       IN  IF Guard(d)
           THEN Returned(t, d, ty, o,
                         IF InPending(d) THEN "skip_pending" ELSE "skip_known",
                         FALSE, pending, known)
           ELSE IF platform = None
           THEN Returned(t, d, ty, o, "unknown_type", FALSE,
                         Cleanup(marked, d), known)
           ELSE IF ~HasCallback(callbacks, platform)
           THEN Returned(t, d, ty, o, "no_callback", FALSE,
                         Cleanup(marked, d), known)
           ELSE /\ task' = [task EXCEPT ![t] = [pc |-> "fetch", dev |-> d,
                                                ty |-> ty, platform |-> platform]]
                /\ obs' = [obs EXCEPT ![t] = [o EXCEPT !.fetched = TRUE]]
                /\ pending' = marked
                /\ known' = known
    /\ UNCHANGED <<callbacks, seeded, env>>

\* discover_device from the resumption of the await to the return.
\* res: the fetch produced a record, produced None ("null"), or raised
\* ("raise"; the debug line that reads the record right after the fetch
\* raising is the same path); builds: see CreateEntity; cbRaises: the
\* platform callback raises.
DiscoverDeviceResume(t, res, builds, cbRaises) ==
    /\ task[t].pc = "fetch"
    /\ LET d == task[t].dev
           ty == task[t].ty
           platform == task[t].platform
           o == [obs[t] EXCEPT !.fetchRes = res, !.builds = builds,
                               !.cbRaises = cbRaises,
                               !.cbAtResume = callbacks[DEVICE_TYPE_TO_PLATFORM[ty]]]
           entity == CreateEntity(ty, DeviceData(d), builds)
           callback == callbacks[platform]
           call == [fn |-> callback, batch |-> <<entity>>, raised |-> cbRaises,
                    alreadyKnown |-> d \in known]
           oc == [o EXCEPT !.calls = Append(o.calls, call)]
           ox == [o EXCEPT !.propagated = ~ExceptionCaught]
           ocx == [oc EXCEPT !.propagated = ~ExceptionCaught]
       IN  IF res = "raise"
           THEN Returned(t, d, ty, ox, "exception", FALSE,
                         Cleanup(pending, d), known)
           ELSE IF res = "null"
           THEN Returned(t, d, ty, o, "fetch_null", FALSE,
                         Cleanup(pending, d), known)
           ELSE IF entity = NoEntity
           THEN Returned(t, d, ty, o, "no_entity", FALSE,
                         Cleanup(pending, d), known)
           ELSE IF cbRaises
           THEN Returned(t, d, ty, ocx, "exception", FALSE,
                         Cleanup(pending, d), known)
           ELSE Returned(t, d, ty, [oc EXCEPT !.promoted = TRUE], "success", TRUE,
                         Cleanup(pending, d), Promote(known, d))
    /\ UNCHANGED <<callbacks, seeded, env>>

FetchResults == {"record", "null", "raise"}

\* What can happen to a resumed attempt.  builds is read only after a record
\* was fetched and cbRaises only after an entity was built; they are fixed
\* where they are not read.
ResumeInputs ==
    {in \in [res : FetchResults, builds : BOOLEAN, cbRaises : BOOLEAN] :
        /\ in.res # "record" => in.builds /\ ~in.cbRaises
        /\ ~in.builds => ~in.cbRaises}

Next ==
    \/ \E p \in Platforms : \E fn \in env.fns[p] : RegisterPlatformCallback(p, fn)
    \/ \E d \in DeviceIds : RegisterKnownDevice(d)
    \/ \E t \in Tasks, d \in DeviceIds, ty \in DeviceTypes : DiscoverDeviceCall(t, d, ty)
    \/ \E t \in Tasks : \E in \in ResumeInputs :
          DiscoverDeviceResume(t, in.res, in.builds, in.cbRaises)

Spec == Init /\ [][Next]_vars

\* ----------------------------------------------------------- vocabulary
Started(t) == task[t].pc # "idle"
Done(t) == task[t].pc = "done"

\* The device types _create_entity builds an entity for, and the two it
\* declines.
SupportedTypes == {"light", "outlet", "airPurifier", "blinds", "motionSensor",
                   "occupancySensor", "lightSensor", "openCloseSensor",
                   "waterSensor"}
UnsupportedTypes == {"controller", "environmentSensor"}

\* Callback invocations of call t that returned normally.
NormalCalls(t) == {i \in 1..Len(obs[t].calls) : ~obs[t].calls[i].raised}

\* Callback invocations for identifier d that returned normally, over all
\* calls: pairs of the call and the position among its invocations.
NormalCallsFor(d) ==
    UNION {{<<t, i>> : i \in NormalCalls(t)} : t \in {u \in Tasks : task[u].dev = d}}

\* Call t found its identifier neither pending nor known, its type supported
\* and the callback of its platform registered; its fetch returned a record
\* and the entity was built.
FetchedAndBuilt(t) ==
    /\ Done(t)
    /\ ~obs[t].pendingBefore /\ ~obs[t].knownBefore
    /\ task[t].ty \in SupportedTypes
    /\ obs[t].cbAtCall # NoCallback
    /\ obs[t].fetchRes = "record"
    /\ obs[t].builds

\* Calls t1 and t2 are for the same identifier, t2 was made while t1 was
\* suspended in the fetch, and both have returned.
ConcurrentPair(t1, t2) ==
    /\ t1 # t2
    /\ Done(t1) /\ Done(t2)
    /\ task[t1].dev = task[t2].dev
    /\ t1 \in obs[t2].overlap

\* t1 returned true after exactly one callback invocation; t2 returned false
\* having fetched nothing and invoked nothing.
OneSuccessOneSkip(t1, t2) ==
    /\ obs[t1].ret
    /\ Len(obs[t1].calls) = 1
    /\ ~obs[t2].ret
    /\ ~obs[t2].fetched
    /\ obs[t2].calls = <<>>

\* ------------------------------------------------------------------- C1
\* C1 as stated: two concurrent discover_device calls for an unresolved
\* identifier of a supported type with a registered callback, whose fetch and
\* entity construction succeed, yield one call that returns true with exactly
\* one callback invocation and one that returns false without fetching.
C1_ConcurrentCallsAsStated ==
    \A t1 \in Tasks, t2 \in Tasks :
        ConcurrentPair(t1, t2) /\ FetchedAndBuilt(t1) => OneSuccessOneSkip(t1, t2)

\* C1 as amended: the same, provided also that the callback returns
\* normally.
C1_ConcurrentCalls ==
    \A t1 \in Tasks, t2 \in Tasks :
        ConcurrentPair(t1, t2) /\ FetchedAndBuilt(t1) /\ ~obs[t1].cbRaises
            => OneSuccessOneSkip(t1, t2)

C1_Witness ==
    \E t1 \in Tasks, t2 \in Tasks :
        /\ ConcurrentPair(t1, t2) /\ FetchedAndBuilt(t1) /\ ~obs[t1].cbRaises
        /\ OneSuccessOneSkip(t1, t2)
        /\ obs[t2].outcome = "skip_pending"

\* ------------------------------------------------------------------- C2
\* C2: for each device identifier, at most one callback invocation returned
\* normally, over all calls made.
C2_OneShotRegistration ==
    \A d \in DeviceIds : Cardinality(NormalCallsFor(d)) <= 1

C2_Witness ==
    \E t1 \in Tasks, t2 \in Tasks :
        /\ t1 # t2 /\ Done(t1) /\ Done(t2)
        /\ task[t1].dev = task[t2].dev
        /\ NormalCalls(t1) # {}
        /\ obs[t2].knownBefore /\ obs[t2].calls = <<>>

\* ------------------------------------------------------------------- C3
\* C3 as stated: no identifier is in both the pending and the known set.
C3_DisjointAsStated == pending \cap known = {}

\* C3 as amended: an identifier in both sets is pending through an attempt
\* still suspended in its fetch and known through a register_known_device
\* call made since that attempt started, not through discovery.
C3_DisjointUnlessSeeded ==
    \A d \in pending \cap known :
        /\ d \in seeded
        /\ \E t \in Suspended : task[t].dev = d /\ ~obs[t].knownBefore
        /\ ~\E t \in Tasks : task[t].dev = d /\ obs[t].promoted

C3_Witness ==
    /\ \E d \in pending \cap known : d \in seeded
    /\ \E t \in Tasks : Done(t) /\ obs[t].ret /\ task[t].dev \notin pending

\* ------------------------------------------------------------------- C4
\* C4: is_known_device(d) is true exactly when some discover_device call for
\* d has returned true or register_known_device(d) has been called.
C4_KnownIffDiscoveredOrSeeded ==
    \A d \in DeviceIds :
        is_known_device(d) <=>
            \/ \E t \in Tasks : Done(t) /\ task[t].dev = d /\ obs[t].ret
            \/ d \in seeded

C4_Witness ==
    /\ \E t \in Tasks : Done(t) /\ obs[t].ret
                        /\ task[t].dev \notin seeded /\ is_known_device(task[t].dev)
    /\ \E t \in Tasks : Done(t) /\ ~obs[t].ret /\ obs[t].fetched
                        /\ ~is_known_device(task[t].dev)

\* ------------------------------------------------------------------- C5
\* C5: no two attempts for the same identifier are past the guard at the
\* same time.
C5_MutualExclusion ==
    \A t1 \in Tasks, t2 \in Tasks :
        t1 # t2 /\ t1 \in Suspended /\ t2 \in Suspended
            => task[t1].dev # task[t2].dev

C5_Witness ==
    \E t1 \in Tasks, t2 \in Tasks :
        /\ t1 \in Suspended
        /\ Done(t2) /\ task[t2].dev = task[t1].dev
        /\ t1 \in obs[t2].overlap
        /\ ~obs[t2].fetched

\* ------------------------------------------------------------------- C6
\* C6 as stated: when the fetch of an attempt returns null, the attempt
\* returns false and, once it has returned, its identifier is in neither the
\* known set nor the pending set.
C6_NullFetchAsStated ==
    \A t \in Tasks :
        Done(t) /\ obs[t].fetchRes = "null"
            => ~obs[t].ret /\ ~obs[t].pendingAfter /\ ~obs[t].knownAfter

\* C6 as amended: when the fetch returns null, the attempt returns false
\* without adding its identifier to the known set and, once it has returned,
\* the identifier is not in the pending set, and is in the known set only if
\* register_known_device was called for it.
C6_NullFetch ==
    \A t \in Tasks :
        Done(t) /\ obs[t].fetchRes = "null"
            => /\ ~obs[t].ret
               /\ ~obs[t].pendingAfter
               /\ ~obs[t].promoted
               /\ obs[t].knownAfter => task[t].dev \in seeded

C6_Witness ==
    \E t \in Tasks :
        /\ Done(t) /\ obs[t].fetchRes = "null" /\ obs[t].fetched
        /\ ~obs[t].ret /\ ~obs[t].pendingAfter /\ ~obs[t].knownAfter
        /\ task[t].dev \notin pending \cup known

\* ------------------------------------------------------------------- C7
\* C7: a call whose type is mapped to a category with no registered callback
\* returns false without issuing a fetch or invoking a callback, and its
\* identifier does not enter the known set.
C7_NoCallback ==
    \A t \in Tasks :
        /\ Started(t)
        /\ task[t].ty \in DOMAIN DEVICE_TYPE_TO_PLATFORM
        /\ obs[t].cbAtCall = NoCallback
        => /\ Done(t)
           /\ ~obs[t].ret
           /\ ~obs[t].fetched
           /\ obs[t].calls = <<>>
           /\ ~obs[t].promoted
           /\ obs[t].knownAfter = obs[t].knownBefore

C7_Witness ==
    \E t \in Tasks :
        /\ Done(t)
        /\ task[t].ty \in SupportedTypes
        /\ obs[t].cbAtCall = NoCallback
        /\ ~obs[t].pendingBefore /\ ~obs[t].knownBefore
        /\ ~obs[t].ret /\ ~obs[t].fetched
        /\ \E p \in Platforms : callbacks[p] # NoCallback

\* ------------------------------------------------------------------- C8
\* C8 as stated: a call with a type that is no key of the type table returns
\* false, never adds its identifier to the known set, issues no fetch, and
\* leaves the identifier out of the pending set after it returns.
C8_UnmappedTypeAsStated ==
    \A t \in Tasks :
        Started(t) /\ task[t].ty \notin DOMAIN DEVICE_TYPE_TO_PLATFORM
        => /\ Done(t)
           /\ ~obs[t].ret
           /\ ~obs[t].promoted
           /\ obs[t].knownAfter = obs[t].knownBefore
           /\ ~obs[t].fetched
           /\ ~obs[t].pendingAfter

\* C8 as amended: the same, except that the identifier is out of the pending
\* set after the call returns unless it was pending (through another attempt
\* in flight) when the call was made.
C8_UnmappedType ==
    \A t \in Tasks :
        Started(t) /\ task[t].ty \notin DOMAIN DEVICE_TYPE_TO_PLATFORM
        => /\ Done(t)
           /\ ~obs[t].ret
           /\ ~obs[t].promoted
           /\ obs[t].knownAfter = obs[t].knownBefore
           /\ ~obs[t].fetched
           /\ obs[t].pendingAfter => obs[t].pendingBefore

C8_Witness ==
    \E t \in Tasks :
        /\ Done(t) /\ task[t].ty \notin DOMAIN DEVICE_TYPE_TO_PLATFORM
        /\ ~obs[t].pendingBefore /\ ~obs[t].knownBefore
        /\ obs[t].outcome = "unknown_type"
        /\ ~obs[t].ret /\ ~obs[t].pendingAfter /\ ~obs[t].knownAfter
        /\ \E p \in Platforms : callbacks[p] # NoCallback

\* ------------------------------------------------------------------- C9
\* C9: a call with type "controller" or "environmentSensor" never returns
\* true, never invokes a callback and never adds its identifier to the known
\* set, whether or not the sensor callback is registered and whatever the
\* fetch returns.
C9_UnsupportedType ==
    \A t \in Tasks :
        Started(t) /\ task[t].ty \in UnsupportedTypes
        => /\ Done(t) => ~obs[t].ret
           /\ obs[t].calls = <<>>
           /\ ~obs[t].promoted
           /\ Done(t) /\ obs[t].knownAfter
                  => obs[t].knownBefore \/ task[t].dev \in seeded

C9_Witness ==
    \E t \in Tasks :
        /\ Done(t) /\ task[t].ty \in UnsupportedTypes
        /\ obs[t].cbAtCall # NoCallback
        /\ obs[t].fetchRes = "record" /\ obs[t].builds
        /\ ~obs[t].ret /\ obs[t].calls = <<>> /\ ~obs[t].knownAfter

\* ------------------------------------------------------------------ C10
\* The category C10 gives each supported type.
ClaimedCategory(ty) ==
    CASE ty = "light" -> "light"
      [] ty = "outlet" -> "switch"
      [] ty = "airPurifier" -> "fan"
      [] ty = "blinds" -> "cover"
      [] ty = "lightSensor" -> "sensor"
      [] OTHER -> "binary_sensor"

\* Call t invoked one callback, the one of the claimed category of its type,
\* once, with the batch of the one entity built for its identifier, returned
\* true and left the identifier known.
RegisteredOnce(t) ==
    /\ obs[t].ret
    /\ Len(obs[t].calls) = 1
    /\ Len(obs[t].calls[1].fn) = 2
    /\ obs[t].calls[1].fn[1] = ClaimedCategory(task[t].ty)
    /\ obs[t].calls[1].batch =
           <<[cls |-> EntityClass(task[t].ty), id |-> task[t].dev]>>
    /\ obs[t].knownAfter

\* C10 as stated: for every supported type and unresolved identifier, if the
\* callback of the type's category is registered and fetch and construction
\* succeed, the call invokes exactly that callback exactly once with a
\* single-element batch, returns true, and is_known_device becomes true.
C10_SupportedTypeAsStated ==
    \A t \in Tasks : FetchedAndBuilt(t) => RegisteredOnce(t)

\* C10 as amended: the same, provided also that the callback returns
\* normally.
C10_SupportedType ==
    \A t \in Tasks : FetchedAndBuilt(t) /\ ~obs[t].cbRaises => RegisteredOnce(t)

C10_Witness ==
    \E t \in Tasks :
        /\ FetchedAndBuilt(t) /\ ~obs[t].cbRaises /\ RegisteredOnce(t)
        /\ task[t].ty = "outlet"
        /\ is_known_device(task[t].dev)
        /\ callbacks["light"] # NoCallback

\* ------------------------------------------------------------------ C11
\* The fetch, the entity construction or the callback of call t raised.
SomethingRaised(t) ==
    /\ Done(t)
    /\ \/ obs[t].fetchRes = "raise"
       \/ obs[t].fetchRes = "record" /\ ~obs[t].builds
       \/ obs[t].cbRaises

\* C11: an exception raised by the fetch, by entity construction or by the
\* callback never reaches the caller: the attempt returns false, does not add
\* its identifier to the known set, and has removed it from the pending set.
C11_ExceptionsSwallowed ==
    \A t \in Tasks :
        SomethingRaised(t)
        => /\ ~obs[t].propagated
           /\ ~obs[t].ret
           /\ ~obs[t].promoted
           /\ obs[t].knownAfter => task[t].dev \in seeded
           /\ ~obs[t].pendingAfter

C11_Witness ==
    /\ \E t \in Tasks :
          /\ Done(t) /\ obs[t].cbRaises /\ Len(obs[t].calls) = 1
          /\ ~obs[t].propagated /\ ~obs[t].ret
          /\ ~obs[t].knownAfter /\ ~obs[t].pendingAfter
    /\ \E t \in Tasks :
          /\ Done(t) /\ obs[t].fetchRes = "raise"
          /\ ~obs[t].propagated /\ ~obs[t].ret

\* ------------------------------------------------------------------ C12
\* C12 as stated: right after any call returns, whether it ended in success,
\* failure or skip, its identifier is not in the pending set.
C12_CleanupAsStated ==
    \A t \in Tasks : Done(t) => ~obs[t].pendingAfter

\* C12 as amended: right after a call that passed the guard returns, in
\* success or failure, its identifier is not in the pending set; a call
\* skipped at the guard leaves the pending set as it found it, so the
\* identifier of a call skipped because it was pending is pending still.
C12_Cleanup ==
    \A t \in Tasks : Done(t) => obs[t].pendingAfter = obs[t].pendingBefore

C12_Witness ==
    /\ \E t \in Tasks : Done(t) /\ obs[t].ret /\ ~obs[t].pendingAfter
    /\ \E t \in Tasks : /\ Done(t) /\ ~obs[t].ret /\ obs[t].fetched
                        /\ ~obs[t].pendingAfter

\* ------------------------------------------------------------------ C13
\* C13: a call that returns false completed no callback invocation and did
\* not add its identifier to the known set; when entity construction yields
\* no entity or raises, no callback is invoked at all.
C13_NoPartialSuccess ==
    \A t \in Tasks :
        /\ Done(t) /\ ~obs[t].ret
           => /\ NormalCalls(t) = {}
              /\ ~obs[t].promoted
              /\ obs[t].knownAfter => obs[t].knownBefore \/ task[t].dev \in seeded
        /\ Done(t) /\ obs[t].fetchRes = "record"
              /\ (~obs[t].builds \/ task[t].ty \in UnsupportedTypes)
           => obs[t].calls = <<>> /\ ~obs[t].ret

C13_Witness ==
    \E t \in Tasks :
        /\ Done(t) /\ task[t].ty \in SupportedTypes
        /\ obs[t].fetchRes = "record" /\ ~obs[t].builds
        /\ obs[t].calls = <<>> /\ ~obs[t].ret /\ ~is_known_device(task[t].dev)

\* ------------------------------------------------------------------ C14
\* Call t passed the guard and returned false.
FailedAttempt(t) ==
    Done(t) /\ ~obs[t].ret /\ ~obs[t].pendingBefore /\ ~obs[t].knownBefore

\* Call t2 was made for the identifier of call t1 after t1 had returned.
\* (Calls are numbered in the order they are made, and a call made earlier
\* that was not suspended had returned.)
Later(t1, t2) ==
    /\ t1 < t2 /\ Started(t2)
    /\ task[t1].dev = task[t2].dev
    /\ t1 \notin obs[t2].overlap

\* Call t2 is the first call for the identifier of t1 made after t1 returned.
NextFor(t1, t2) ==
    /\ Later(t1, t2)
    /\ ~\E t3 \in Tasks : t1 < t3 /\ t3 < t2 /\ task[t3].dev = task[t1].dev

\* C14 as stated: after a failed attempt returns, its identifier is in
\* neither set, and a later call for it passes the guard and, if the type is
\* supported, the callback registered and fetch and construction succeed,
\* returns true and makes the identifier known.
C14_RetryAsStated ==
    \A t1 \in Tasks, t2 \in Tasks :
        FailedAttempt(t1)
        => /\ ~obs[t1].pendingAfter /\ ~obs[t1].knownAfter
           /\ Later(t1, t2)
              => /\ ~obs[t2].pendingBefore /\ ~obs[t2].knownBefore
                 /\ /\ Done(t2)
                    /\ task[t2].ty \in SupportedTypes
                    /\ obs[t2].cbAtCall # NoCallback
                    /\ obs[t2].fetchRes = "record" /\ obs[t2].builds
                    => obs[t2].ret /\ obs[t2].knownAfter

\* C14 as amended: a failed attempt adds its identifier to neither set (after
\* it returns the identifier is not pending, and is known only if
\* register_known_device was called for it); the next call for the identifier
\* passes the guard unless register_known_device was called for it, and, if
\* it passes, the type is supported, the callback registered, fetch and
\* construction succeed and the callback returns normally, it returns true
\* and makes the identifier known.
C14_Retry ==
    \A t1 \in Tasks, t2 \in Tasks :
        FailedAttempt(t1)
        => /\ ~obs[t1].pendingAfter
           /\ ~obs[t1].promoted
           /\ obs[t1].knownAfter => task[t1].dev \in seeded
           /\ NextFor(t1, t2)
              => /\ ~obs[t2].pendingBefore
                 /\ obs[t2].knownBefore => task[t2].dev \in seeded
                 /\ FetchedAndBuilt(t2) /\ ~obs[t2].cbRaises
                    => obs[t2].ret /\ obs[t2].knownAfter

C14_Witness ==
    \E t1 \in Tasks, t2 \in Tasks :
        /\ FailedAttempt(t1) /\ obs[t1].fetched
        /\ NextFor(t1, t2)
        /\ FetchedAndBuilt(t2) /\ ~obs[t2].cbRaises
        /\ obs[t2].ret /\ obs[t2].knownAfter

\* ------------------------------------------------------------------ C15
\* Attempt ta is suspended in its fetch and call tb, made before or after
\* it, is for another identifier.
HungBeside(ta, tb) ==
    /\ ta \in Suspended /\ Started(tb)
    /\ task[ta].dev # task[tb].dev

\* Call tb found its identifier not known and no attempt for it in flight.
Unresolved(tb) ==
    /\ ~obs[tb].knownBefore
    /\ ~\E u \in obs[tb].overlap : task[u].dev = task[tb].dev

\* Call tb passed the guard.
PassedGuard(tb) ==
    /\ ~obs[tb].pendingBefore
    /\ obs[tb].outcome \notin {"skip_pending", "skip_known"}

\* C15 as stated: while an attempt for a hangs in its fetch, a call for
\* another, unresolved identifier b passes the guard, can be resumed, and
\* when its type is supported, its callback registered and its fetch and
\* construction succeed, returns true and makes b known.
C15_HungFetchAsStated ==
    \A ta \in Tasks, tb \in Tasks :
        HungBeside(ta, tb) /\ Unresolved(tb)
        => /\ PassedGuard(tb)
           /\ tb \in Suspended => ENABLED DiscoverDeviceResume(tb, "record", TRUE, FALSE)
           /\ /\ Done(tb)
              /\ task[tb].ty \in SupportedTypes
              /\ obs[tb].cbAtCall # NoCallback
              /\ obs[tb].fetchRes = "record" /\ obs[tb].builds
              => obs[tb].ret /\ obs[tb].knownAfter

\* C15 as amended: the same, provided also that the callback of b's call
\* returns normally.
C15_HungFetch ==
    \A ta \in Tasks, tb \in Tasks :
        HungBeside(ta, tb) /\ Unresolved(tb)
        => /\ PassedGuard(tb)
           /\ tb \in Suspended => ENABLED DiscoverDeviceResume(tb, "record", TRUE, FALSE)
           /\ FetchedAndBuilt(tb) /\ ~obs[tb].cbRaises
              => obs[tb].ret /\ obs[tb].knownAfter

C15_Witness ==
    \E ta \in Tasks, tb \in Tasks :
        /\ HungBeside(ta, tb) /\ Unresolved(tb)
        /\ ta \in obs[tb].overlap
        /\ FetchedAndBuilt(tb) /\ ~obs[tb].cbRaises
        /\ obs[tb].ret /\ is_known_device(task[tb].dev)

\* ------------------------------------------------------------------ C16
\* C16: a call made while its identifier is pending or known returns false
\* in the same step, leaves the known set, the pending set and the callback
\* map as they were, issues no fetch and invokes no callback.
C16_PureSkip ==
    [][\A t \in Tasks :
          /\ task[t].pc = "idle" /\ task'[t].pc # "idle"
          /\ task'[t].dev \in pending \cup known
          => /\ task'[t].pc = "done"
             /\ ~obs'[t].ret
             /\ ~obs'[t].fetched
             /\ obs'[t].calls = <<>>
             /\ known' = known
             /\ pending' = pending
             /\ callbacks' = callbacks]_vars

C16_Witness ==
    \E t1 \in Tasks, t2 \in Tasks :
        /\ t1 \in Suspended /\ t1 \in obs[t2].overlap
        /\ Done(t2) /\ task[t2].dev = task[t1].dev
        /\ obs[t2].pendingBefore /\ obs[t2].pendingAfter
        /\ ~obs[t2].ret /\ ~obs[t2].fetched /\ obs[t2].calls = <<>>
        /\ task[t1].dev \in pending

\* ------------------------------------------------------------------ C17
\* C17: no step removes an identifier from the known set.
C17_KnownAppendOnly == [][known \subseteq known']_vars

C17_Witness ==
    /\ known = DeviceIds
    /\ \E t \in Tasks : Done(t) /\ obs[t].promoted
    /\ \E t \in Tasks : Done(t) /\ ~obs[t].ret /\ obs[t].fetched

\* ------------------------------------------------------------------ C18
\* C18: within one attempt, the fetch is issued only with the identifier
\* marked pending and the category and its callback resolved; the callback
\* is invoked only after the fetch returned a record and construction an
\* entity; the identifier is added to the known set only after the callback
\* returned normally; the identifier stays pending until the attempt
\* returns, and is removed by then.
C18_StepOrder ==
    \A t \in Tasks :
        /\ obs[t].fetched
           => /\ ~obs[t].pendingBefore /\ ~obs[t].knownBefore
              /\ task[t].ty \in DOMAIN DEVICE_TYPE_TO_PLATFORM
              /\ task[t].platform = DEVICE_TYPE_TO_PLATFORM[task[t].ty]
              /\ obs[t].cbAtCall # NoCallback
        /\ t \in Suspended
           => /\ task[t].dev \in pending
              /\ obs[t].calls = <<>> /\ ~obs[t].promoted
        /\ obs[t].calls # <<>>
           => /\ Done(t) /\ obs[t].fetched
              /\ obs[t].fetchRes = "record"
              /\ \A i \in 1..Len(obs[t].calls) :
                    /\ Len(obs[t].calls[i].batch) = 1
                    /\ obs[t].calls[i].batch[1] # NoEntity
        /\ obs[t].promoted => NormalCalls(t) # {}
        /\ Done(t) /\ obs[t].fetched => ~obs[t].pendingAfter

C18_Witness ==
    \E t1 \in Tasks, t2 \in Tasks :
        /\ t1 \in Suspended /\ task[t1].dev \in pending
        /\ Done(t2) /\ obs[t2].fetched /\ obs[t2].promoted
        /\ NormalCalls(t2) = {1}
        /\ task[t2].dev \in known \ pending

\* ------------------------------------------------------------------ C19
\* C19: registering the same function for a platform twice gives the dict
\* that registering it once gives; registering another function afterwards
\* leaves the later one, and touches no other platform; the function an
\* attempt invokes is the one registered for the platform when the fetch
\* returned, not the one found when the attempt was called, if they differ.
C19_LastWriterWins ==
    /\ \A p \in env.platforms : \A f \in env.fns[p], g \in env.fns[p] :
          LET once == RegisterResult(callbacks, p, f)
          IN  /\ RegisterResult(once, p, f) = once
              /\ once[p] = f
              /\ RegisterResult(once, p, g)[p] = g
              /\ \A q \in Platforms \ {p} : once[q] = callbacks[q]
    /\ \A t \in Tasks : \A i \in 1..Len(obs[t].calls) :
          /\ obs[t].calls[i].fn = obs[t].cbAtResume
          /\ obs[t].cbAtResume # obs[t].cbAtCall
             => obs[t].calls[i].fn # obs[t].cbAtCall

C19_Witness ==
    \E t \in Tasks :
        /\ Done(t) /\ Len(obs[t].calls) = 1
        /\ obs[t].cbAtCall = <<"light", 1>>
        /\ obs[t].calls[1].fn = <<"light", 2>>
        /\ callbacks["light"] = <<"light", 2>>

\* ------------------------------------------------------------------ C20
\* C20: the callback is never invoked for an identifier that is in the known
\* set at the moment of the invocation.
C20_NoCallbackForKnown ==
    \A t \in Tasks : \A i \in 1..Len(obs[t].calls) : ~obs[t].calls[i].alreadyKnown

\* ------------------------------------------------------------- liveness
\* The environment of the fair specification: every call, both devices, a
\* supported type and an unmapped one, one platform with one function.
LivenessEnv == [name |-> "liveness",
                devices |-> DeviceIds,
                types |-> {"light", "speaker"},
                platforms |-> {"light"},
                fns |-> OwnFns({1}),
                tasks |-> Tasks]

\* __init__, in the liveness environment.
FairInit ==
    /\ known = {}
    /\ pending = {}
    /\ callbacks = [p \in Platforms |-> NoCallback]
    /\ task = [t \in Tasks |-> IdleTask]
    /\ obs = [t \in Tasks |-> NoObs]
    /\ seeded = {}
    /\ env = LivenessEnv

\* The event loop resumes coroutine t, whose executor job has finished with
\* a record, None or an exception, and runs it to its return.
ResumeSome(t) ==
    \E in \in ResumeInputs : DiscoverDeviceResume(t, in.res, in.builds, in.cbRaises)

\* Every fetch eventually returns and the loop is fair to every coroutine:
\* a coroutine suspended in the await is eventually resumed.
FetchesReturn == \A t \in Tasks : WF_vars(ResumeSome(t))

FairSpec == FairInit /\ [][Next]_vars /\ FetchesReturn

\* The call returned a boolean to its caller.
ReturnedBoolean(t) == Done(t) /\ obs[t].ret \in BOOLEAN /\ ~obs[t].propagated

\* A call of discover_device is made in this step.
NewAttempt ==
    \E t \in Tasks, d \in DeviceIds, ty \in DeviceTypes : DiscoverDeviceCall(t, d, ty)

\* C21: if every fetch eventually returns, then under fair scheduling every
\* attempt that was started eventually returns a boolean, every identifier
\* in the pending set eventually leaves it, and once no new attempts are
\* started the pending set becomes empty and stays empty.
C21_Termination ==
    /\ \A t \in Tasks : Started(t) ~> ReturnedBoolean(t)
    /\ \A d \in DeviceIds : (d \in pending) ~> (d \notin pending)
    /\ (<>[][~NewAttempt]_vars) => <>[](pending = {})

\* Every attempt has returned and the pending set is empty; one attempt
\* returned after its fetch while another identifier was still pending.
C21_Witness ==
    /\ \A t \in env.tasks : Done(t)
    /\ pending = {}
    /\ \E t \in Tasks, u \in Tasks :
          /\ t # u
          /\ obs[t].fetched /\ ReturnedBoolean(t) /\ ~obs[t].pendingAfter
          /\ obs[u].fetched /\ ReturnedBoolean(u) /\ t \in obs[u].overlap
          /\ task[t].dev # task[u].dev
====
